---- MODULE Spec2Model ----
(***************************************************************************)
(* Model of the goja debugger (src/debugger.go): the breakpoint registry,  *)
(* the stepping commands Next and Continue, the nested evaluation of Exec  *)
(* inside the paused frame, and the one-shot channel a waiter blocks on.   *)
(*                                                                         *)
(* Go slices and the VM stack are 0-based; the sequences here are 1-based, *)
(* so code[pc] of the source is code[pc + 1] here.                         *)
(***************************************************************************)
EXTENDS Integers, Sequences, FiniteSets, TLC

(***************************************************************************)
(* Bounds of the model.                                                    *)
(***************************************************************************)
MaxBreakpoints == 2
MaxHist == 3
MaxCtx == 1

(***************************************************************************)
(* Values of the runtime.  Nil is Go's nil (interface or error).           *)
(***************************************************************************)
Nil == "nil"
undefined == "undefined"
globalObject == "globalObject"

MainFile == "a.js"
EvalFile == "<eval>"

(***************************************************************************)
(* Instructions.  "op" is any instruction that only advances the program   *)
(* counter, "jne" a conditional relative jump, "saveResult" stores the     *)
(* value of an expression statement, "throw" raises an exception (a Go     *)
(* panic), "halt" ends vm.run, "debugger" is the pause marker.             *)
(***************************************************************************)
I(o) == [op |-> o, arg |-> 0, val |-> Nil]
Jne(d) == [op |-> "jne", arg |-> d, val |-> Nil]
SaveResult(v) == [op |-> "saveResult", arg |-> 0, val |-> v]

(***************************************************************************)
(* The frames a paused VM can be in: at top level (sb = -1), or inside a   *)
(* call whose receiver sits at the stack base.  stash is the chain of the   *)
(* lexical scopes, the innermost first.                                    *)
(***************************************************************************)
TopLevel == [sb |-> -1, sp |-> 0, stack |-> <<>>, stash |-> <<("y" :> "num2")>>]
InCall ==
  [sb |-> 0, sp |-> 2, stack |-> <<"objA", "v1">>,
   stash |-> <<("x" :> "num1"), ("x" :> "num2" @@ "y" :> "undefined")>>]

(***************************************************************************)
(* The own properties of the global object, and the names Print is called  *)
(* with.                                                                   *)
(***************************************************************************)
GlobalProperties == ("x" :> "num3" @@ "g" :> "num4")

VarNames == {"", "x", "y", "nope"}

(***************************************************************************)
(* The paused programs a session is opened on: the code, the line of each  *)
(* instruction (the offset-to-position table of the program) and the frame *)
(* the VM is paused in.                                                    *)
(***************************************************************************)
Programs ==
  { [code |-> <<I("op"), I("op"), I("op"), I("halt")>>, lines |-> <<1, 2, 3, 3>>,
     frame |-> TopLevel],
    [code |-> <<I("op"), I("debugger"), I("op"), I("halt")>>, lines |-> <<1, 2, 2, 3>>,
     frame |-> InCall],
    [code |-> <<I("op"), Jne(2), I("op"), I("op")>>, lines |-> <<1, 1, 2, 3>>,
     frame |-> InCall],
    [code |-> <<I("op"), I("op"), Jne(-2), I("halt")>>, lines |-> <<2, 1, 3, 3>>,
     frame |-> TopLevel],
    [code |-> <<I("debugger"), I("op"), I("op")>>, lines |-> <<1, 1, 1>>,
     frame |-> TopLevel] }

(***************************************************************************)
(* Expressions handed to Exec, by what the parser, the compiler and the    *)
(* run make of them.                                                       *)
(***************************************************************************)
Exprs == {"", "1+1", "syntax(((", "let x; let x", "throw 1"}

(***************************************************************************)
(* The positions SetBreakpoint and ClearBreakpoint are called with.        *)
(***************************************************************************)
BreakpointInputs ==
  { [Filename |-> MainFile, Line |-> 1], [Filename |-> MainFile, Line |-> 2],
    [Filename |-> EvalFile, Line |-> 1] }

VARIABLES
  program,          \* the program the session was opened on
  vm,               \* dbg.vm: prg, pc, sp, sb, args, result, halt, stack, callStack, stash
  debuggerExec,     \* dbg.debuggerExec
  currentLine,      \* dbg.currentLine
  lastLines,        \* dbg.lastLines
  breakpoints,      \* dbg.breakpoints (elements)
  breakpointsNil,   \* dbg.breakpoints == nil
  ch,               \* dbg.ch: "open" or "closed"
  waiter,           \* the thread calling dbg.wait(): "blocked", "done"
  cmd,              \* the stepping command in progress on the controller
  ret,              \* the Result of the command that returned last; none while one runs
  pre,              \* the state the last command was called in
  crashed,          \* a panic that left the debugger uncaught
  calls             \* number of Continue calls so far, and of those that ended

vars == <<program, vm, debuggerExec, currentLine, lastLines, breakpoints,
          breakpointsNil, ch, waiter, cmd, ret, pre, crashed, calls>>

NoBreakpoint == [Filename |-> "", Line |-> 0]
NoCmd == [name |-> "none", lastLine |-> 0, nextLine |-> 0, ran |-> 0, resumes |-> FALSE]

(***************************************************************************)
(* The parser, the compiler and the compiled fragment of an expression.    *)
(***************************************************************************)
ParseFails(expr) == expr = "syntax((("

CompilePanics(expr) == expr = "let x; let x"

Fragment(expr) ==
  IF expr = "1+1" THEN <<SaveResult("2"), I("halt")>>
  ELSE <<I("op"), I("throw")>>

(***************************************************************************)
(* Program metadata: the code of the active program and the position of    *)
(* an instruction.  An offset past the last entry of the table maps to     *)
(* the last entry.                                                         *)
(***************************************************************************)
Code(v) == IF v.prg = "main" THEN program.code ELSE Fragment(v.prg)

LineAt(v, pc) ==
  IF v.prg = "main"
  THEN IF pc < Len(program.lines) THEN program.lines[pc + 1]
       ELSE program.lines[Len(program.lines)]
  ELSE 1

Line(v) == LineAt(v, v.pc)

Filename(v) == IF v.prg = "main" THEN MainFile ELSE EvalFile

isSafeToRun(v) == v.pc < Len(Code(v))

isDebuggerStatement(v) == Code(v)[v.pc + 1].op = "debugger"

isBreakpoint_firstOnly(v, bps) ==
  LET b == [Filename |-> Filename(v), Line |-> Line(v)]
  IN Len(bps) > 0 /\ bps[1] = b

isBreakpoint(v, bps) ==
  LET b == [Filename |-> Filename(v), Line |-> Line(v)]
  IN \E i \in 1..Len(bps) : bps[i] = b

getLastLine(v, ll) == IF Len(ll) > 0 THEN ll[Len(ll)] ELSE Line(v)

updateLastLine_unconditional(ll, lineNumber) == Append(ll, lineNumber)

updateLastLine(ll, lineNumber) ==
  IF Len(ll) > 0 /\ ll[Len(ll)] # lineNumber THEN Append(ll, lineNumber) ELSE ll

RECURSIVE getNextLineFrom(_, _)
getNextLineFrom(v, idx) ==
  IF idx >= Len(Code(v)) - v.pc THEN 0
  ELSE IF LineAt(v, v.pc + idx + 1) > Line(v) THEN LineAt(v, v.pc + idx + 1)
  ELSE getNextLineFrom(v, idx + 1)

getNextLine_nextInstruction(v) == IF isSafeToRun(v) THEN LineAt(v, v.pc + 1) ELSE 0

getNextLine(v) == getNextLineFrom(v, 0)

(***************************************************************************)
(* The VM: one instruction, the context stack, the value stack, the run    *)
(* loop.                                                                   *)
(***************************************************************************)
Throws(v) == Code(v)[v.pc + 1].op = "throw"

exec(v, taken) ==
  LET i == Code(v)[v.pc + 1]
  IN CASE i.op = "jne" -> [v EXCEPT !.pc = IF taken THEN v.pc + i.arg ELSE v.pc + 1]
       [] i.op = "saveResult" -> [v EXCEPT !.result = i.val, !.pc = v.pc + 1]
       [] i.op = "halt" -> [v EXCEPT !.halt = TRUE, !.pc = v.pc + 1]
       [] OTHER -> [v EXCEPT !.pc = v.pc + 1]

Branches(v) == IF Code(v)[v.pc + 1].op = "jne" THEN BOOLEAN ELSE {FALSE}

pushCtx(v) ==
  [v EXCEPT !.callStack = Append(@, [prg |-> v.prg, pc |-> v.pc, sb |-> v.sb,
                                     args |-> v.args, result |-> v.result])]

popCtx(v) ==
  LET l == Len(v.callStack)
      ctx == v.callStack[l]
  IN [v EXCEPT !.prg = ctx.prg, !.pc = ctx.pc, !.sb = ctx.sb, !.args = ctx.args,
               !.result = ctx.result, !.callStack = SubSeq(v.callStack, 1, l - 1)]

push(v, x) ==
  [v EXCEPT !.stack = IF v.sp < Len(v.stack) THEN [v.stack EXCEPT ![v.sp + 1] = x]
                      ELSE Append(v.stack, x),
            !.sp = v.sp + 1]

RECURSIVE runLoop(_)
runLoop(v) ==
  IF v.halt \/ ~isSafeToRun(v) THEN [vm |-> v, panic |-> Nil]
  ELSE IF Throws(v) THEN [vm |-> v, panic |-> "exception"]
  ELSE runLoop(exec(v, FALSE))

run(v) == runLoop([v EXCEPT !.halt = FALSE])

(***************************************************************************)
(* Debugger.eval.  Its results are unnamed, so after a recovered panic it  *)
(* returns the zero values: what the deferred functions assign to the      *)
(* local err is lost.                                                      *)
(***************************************************************************)
this(v) == IF v.sb >= 0 THEN v.stack[v.sb + 1] ELSE globalObject

evalEnter(v, p, t) ==
  push([pushCtx(v) EXCEPT !.prg = p, !.pc = 0, !.args = 0, !.result = undefined,
                          !.sb = v.sp], t)

evalLeave_spKept(v) ==
  LET retval == v.result
      w == popCtx(v)
  IN [vm |-> [w EXCEPT !.halt = FALSE],
      val |-> retval, err |-> Nil, stage |-> "ok"]

evalLeave(v) ==
  LET retval == v.result
      w == popCtx(v)
  IN [vm |-> [w EXCEPT !.halt = FALSE, !.sp = v.sp - 1],
      val |-> retval, err |-> Nil, stage |-> "ok"]

evalRecovered(v, stage) == [vm |-> v, val |-> Nil, err |-> Nil, stage |-> stage]

eval(v, expr) ==
  IF ParseFails(expr)
  THEN [vm |-> v, val |-> Nil, err |-> "CompilerSyntaxError", stage |-> "parse"]
  ELSE IF CompilePanics(expr) THEN evalRecovered(v, "compile")
  ELSE LET r == run(evalEnter(v, expr, this(v)))
       IN IF r.panic # Nil THEN evalRecovered(r.vm, "run") ELSE evalLeave(r.vm)

(***************************************************************************)
(* Debugger.getValue: the scope chain, then the receiver of the frame,     *)
(* then the global object, then the unresolved reference.                  *)
(***************************************************************************)
Unresolved(name) == "unresolved " \o name

getByName(scope, name) ==
  IF name \in DOMAIN scope THEN [v |-> scope[name], exists |-> TRUE]
  ELSE [v |-> Nil, exists |-> FALSE]

getStr(name) == IF name \in DOMAIN GlobalProperties THEN GlobalProperties[name] ELSE Nil

RECURSIVE walkStash(_, _, _)
walkStash(stash, i, name) ==
  IF i > Len(stash) THEN Nil
  ELSE IF getByName(stash[i], name).exists THEN getByName(stash[i], name).v
  ELSE walkStash(stash, i + 1, name)

getValueAfterStash(v, name) ==
  LET second == IF v.sb >= 0 THEN v.stack[v.sb + 1] ELSE Nil
      third == getStr(name)
  IN IF second # Nil
     THEN [val |-> second, err |-> "variable doesn't exist in the global scope"]
     ELSE IF third # Nil
     THEN [val |-> third, err |-> "variable doesn't exist in the local scope"]
     ELSE [val |-> Unresolved(name), err |-> "cannot resolve variable"]

getValue_outermostFirst(v, name) ==
  LET bound == {i \in 1..Len(v.stash) : name \in DOMAIN v.stash[i]}
  IN IF bound # {}
     THEN [val |-> v.stash[CHOOSE i \in bound : \A j \in bound : j <= i][name],
           err |-> Nil]
     ELSE getValueAfterStash(v, name)

getValue_receiverSkipped(v, name) ==
  LET first == walkStash(v.stash, 1, name)
      third == getStr(name)
  IN IF first # Nil THEN [val |-> first, err |-> Nil]
     ELSE IF third # Nil
     THEN [val |-> third, err |-> "variable doesn't exist in the local scope"]
     ELSE [val |-> Unresolved(name), err |-> "cannot resolve variable"]

getValue(v, name) ==
  LET first == walkStash(v.stash, 1, name)
  IN IF first # Nil THEN [val |-> first, err |-> Nil]
     ELSE getValueAfterStash(v, name)

(***************************************************************************)
(* fmt.Sprint of a value and of the constant pool of the active program.   *)
(***************************************************************************)
Sprint(val) ==
  CASE val = "num1" -> "1"
    [] val = "num2" -> "2"
    [] val = "num3" -> "3"
    [] val = "num4" -> "4"
    [] val = "objA" -> "[object Object]"
    [] val = "v1" -> "v1"
    [] val = globalObject -> "[object global]"
    [] val = undefined -> "undefined"
    [] OTHER -> "%!v(PANIC=String method: ReferenceError)"

SprintValues(v) == IF v.prg = "main" THEN "[main values]" ELSE "[eval values]"

printCommand(v, varName) ==
  IF varName = "" THEN [Value |-> "", Err |-> "please specify variable name"]
  ELSE LET r == getValue(v, varName)
       IN IF r.val = undefined THEN [Value |-> SprintValues(v), Err |-> r.err]
          ELSE [Value |-> Sprint(r.val), Err |-> r.err]

(***************************************************************************)
(* The session.                                                            *)
(***************************************************************************)
Result(c, val, err) ==
  [cmd |-> c, bp |-> NoBreakpoint, expr |-> "", Value |-> val, Err |-> err,
   list |-> <<>>, stage |-> "", ran |-> 0]

Snapshot ==
  [vm |-> vm, breakpoints |-> breakpoints, lastLines |-> lastLines, ch |-> ch,
   currentLine |-> currentLine, debuggerExec |-> debuggerExec]

Idle == cmd.name = "none" /\ crashed = Nil

Init ==
  /\ program \in Programs
  /\ vm = [prg |-> "main", pc |-> 0, sp |-> program.frame.sp, sb |-> program.frame.sb,
           args |-> 0, result |-> undefined, halt |-> FALSE,
           stack |-> program.frame.stack, callStack |-> <<>>,
           stash |-> program.frame.stash]
  /\ debuggerExec = FALSE
  /\ currentLine = 0
  /\ lastLines = <<0>>
  /\ breakpoints = <<>>
  /\ breakpointsNil = TRUE
  /\ ch = "open"
  /\ waiter = "blocked"
  /\ cmd = NoCmd
  /\ ret = Result("none", Nil, Nil)
  /\ pre = Snapshot
  /\ crashed = Nil
  /\ calls = [started |-> 0, returned |-> 0]

(***************************************************************************)
(* The breakpoint registry.                                                *)
(***************************************************************************)
Contains(bps, b) == \E i \in 1..Len(bps) : bps[i] = b

IndexOf(bps, b) == CHOOSE i \in 1..Len(bps) : bps[i] = b /\ \A j \in 1..(i - 1) : bps[j] # b

Remove_last(bps, idx) == SubSeq(bps, 1, Len(bps) - 1)

Remove(bps, idx) == SubSeq(bps, 1, idx - 1) \o SubSeq(bps, idx + 1, Len(bps))

setBreakpoint_unchecked(bps, b) == [bps |-> Append(bps, b), err |-> Nil]

setBreakpoint(bps, b) ==
  IF Contains(bps, b) THEN [bps |-> bps, err |-> "breakpoint exists"]
  ELSE [bps |-> Append(bps, b), err |-> Nil]

clearBreakpoint_missingIgnored(bps, b) ==
  IF Len(bps) = 0 THEN [bps |-> bps, err |-> "no breakpoints set"]
  ELSE IF Contains(bps, b) THEN [bps |-> Remove(bps, IndexOf(bps, b)), err |-> Nil]
  ELSE [bps |-> bps, err |-> Nil]

clearBreakpoint(bps, b) ==
  IF Len(bps) = 0 THEN [bps |-> bps, err |-> "no breakpoints set"]
  ELSE IF Contains(bps, b) THEN [bps |-> Remove(bps, IndexOf(bps, b)), err |-> Nil]
  ELSE [bps |-> bps, err |-> "cannot set breakpoints"]

SetBreakpoint(fileName, line) ==
  LET b == [Filename |-> fileName, Line |-> line]
      r == setBreakpoint(breakpoints, b)
  IN /\ Idle
     /\ Len(r.bps) <= MaxBreakpoints
     /\ breakpoints' = r.bps
     /\ breakpointsNil' = (breakpointsNil /\ r.err # Nil)
     /\ ret' = [Result("SetBreakpoint", Nil, r.err) EXCEPT !.bp = b]
     /\ pre' = Snapshot
     /\ UNCHANGED <<program, vm, debuggerExec, currentLine, lastLines, ch, waiter,
                    cmd, crashed, calls>>

ClearBreakpoint(fileName, line) ==
  LET b == [Filename |-> fileName, Line |-> line]
      r == clearBreakpoint(breakpoints, b)
  IN /\ Idle
     /\ breakpoints' = r.bps
     /\ ret' = [Result("ClearBreakpoint", Nil, r.err) EXCEPT !.bp = b]
     /\ pre' = Snapshot
     /\ UNCHANGED <<program, vm, debuggerExec, currentLine, lastLines,
                    breakpointsNil, ch, waiter, cmd, crashed, calls>>

listBreakpoints(bps, isNil) ==
  IF isNil THEN [list |-> <<>>, err |-> "no breakpoints"]
  ELSE [list |-> bps, err |-> Nil]

Breakpoints ==
  /\ Idle
  /\ ret' = LET r == listBreakpoints(breakpoints, breakpointsNil)
            IN [Result("Breakpoints", Nil, r.err) EXCEPT !.list = r.list]
  /\ pre' = Snapshot
  /\ UNCHANGED <<program, vm, debuggerExec, currentLine, lastLines, breakpoints,
                 breakpointsNil, ch, waiter, cmd, crashed, calls>>

(***************************************************************************)
(* Exec.                                                                   *)
(***************************************************************************)
Exec_emptyEvaluated(expr) ==
  /\ Idle
  /\ pre' = Snapshot
  /\ LET r == eval(vm, expr)
         lastLine == Line(r.vm)
     IN /\ ParseFails(expr) \/ CompilePanics(expr) \/ Len(vm.callStack) < MaxCtx
        /\ Len(updateLastLine(lastLines, lastLine)) <= MaxHist
        /\ vm' = r.vm
        /\ debuggerExec' = FALSE
        /\ lastLines' = updateLastLine(lastLines, lastLine)
        /\ ret' = [Result("Exec", r.val, r.err) EXCEPT !.expr = expr, !.stage = r.stage]
  /\ UNCHANGED <<program, currentLine, breakpoints, breakpointsNil, ch, waiter, cmd,
                 crashed, calls>>

Exec(expr) ==
  /\ Idle
  /\ pre' = Snapshot
  /\ IF expr = ""
     THEN /\ ret' = [Result("Exec", Nil, "nothing to execute") EXCEPT !.stage = "usage"]
          /\ UNCHANGED <<vm, debuggerExec, lastLines>>
     ELSE LET r == eval(vm, expr)
              lastLine == Line(r.vm)
          IN /\ ParseFails(expr) \/ CompilePanics(expr) \/ Len(vm.callStack) < MaxCtx
             /\ Len(updateLastLine(lastLines, lastLine)) <= MaxHist
             /\ vm' = r.vm
             /\ debuggerExec' = FALSE
             /\ lastLines' = updateLastLine(lastLines, lastLine)
             /\ ret' = [Result("Exec", r.val, r.err) EXCEPT !.expr = expr, !.stage = r.stage]
  /\ UNCHANGED <<program, currentLine, breakpoints, breakpointsNil, ch, waiter, cmd,
                 crashed, calls>>

(***************************************************************************)
(* Print.                                                                  *)
(***************************************************************************)
PrintVar(varName) ==
  /\ Idle
  /\ ret' = LET r == printCommand(vm, varName)
            IN [Result("Print", r.Value, r.Err) EXCEPT !.expr = varName]
  /\ pre' = Snapshot
  /\ UNCHANGED <<program, vm, debuggerExec, currentLine, lastLines, breakpoints,
                 breakpointsNil, ch, waiter, cmd, crashed, calls>>

(***************************************************************************)
(* List and Help.  listSource renders the lines of the source within four  *)
(* lines of the current one, the current one behind a cursor.              *)
(***************************************************************************)
SourceLines(v) == IF v.prg = "main" THEN program.lines[Len(program.lines)] ELSE 1

InBetween(i, min, max) == i >= min /\ i <= max

RECURSIVE listSourceFrom(_, _)
listSourceFrom(v, idx) ==
  IF idx >= SourceLines(v) THEN ""
  ELSE (IF ~InBetween(Line(v) - 1, idx - 4, idx + 4) THEN ""
        ELSE IF Line(v) = idx + 1 THEN "> " \o ToString(Line(v)) \o "\n"
        ELSE "  " \o ToString(idx + 1) \o "\n")
       \o listSourceFrom(v, idx + 1)

listSource(v) == listSourceFrom(v, 0)

List ==
  /\ Idle
  /\ ret' = Result("List", listSource(vm), Nil)
  /\ pre' = Snapshot
  /\ UNCHANGED <<program, vm, debuggerExec, currentLine, lastLines, breakpoints,
                 breakpointsNil, ch, waiter, cmd, crashed, calls>>

HelpText == "setBreakpoint, sb   Set a breakpoint on a given file and line ..."

Help ==
  /\ Idle
  /\ ret' = Result("Help", HelpText, Nil)
  /\ pre' = Snapshot
  /\ UNCHANGED <<program, vm, debuggerExec, currentLine, lastLines, breakpoints,
                 breakpointsNil, ch, waiter, cmd, crashed, calls>>

(***************************************************************************)
(* StepIn, StepOut.                                                        *)
(***************************************************************************)
StepIn_movesCursor ==
  /\ Idle
  /\ ret' = Result("StepIn", Nil, "not implemented yet")
  /\ pre' = Snapshot
  /\ currentLine' = Line(vm)
  /\ UNCHANGED <<program, vm, debuggerExec, lastLines, breakpoints,
                 breakpointsNil, ch, waiter, cmd, crashed, calls>>

StepIn ==
  /\ Idle
  /\ ret' = Result("StepIn", Nil, "not implemented yet")
  /\ pre' = Snapshot
  /\ UNCHANGED <<program, vm, debuggerExec, currentLine, lastLines, breakpoints,
                 breakpointsNil, ch, waiter, cmd, crashed, calls>>

StepOut ==
  /\ Idle
  /\ ret' = Result("StepOut", Nil, "not implemented yet")
  /\ pre' = Snapshot
  /\ UNCHANGED <<program, vm, debuggerExec, currentLine, lastLines, breakpoints,
                 breakpointsNil, ch, waiter, cmd, crashed, calls>>

(***************************************************************************)
(* Next: the call, one iteration of the loop, the return.  cmd.ran tells   *)
(* whether the call has executed an instruction.                           *)
(***************************************************************************)
NextRuns == isSafeToRun(vm) /\ Line(vm) # cmd.nextLine

NextCall ==
  /\ Idle
  /\ Len(updateLastLine(lastLines, Line(vm))) <= MaxHist
  /\ currentLine' = Line(vm)
  /\ cmd' = [name |-> "Next", lastLine |-> Line(vm), nextLine |-> getNextLine(vm),
             ran |-> 0, resumes |-> ret.cmd \in {"Next", "Continue"}]
  /\ pre' = Snapshot
  /\ ret' = Result("none", Nil, Nil)
  /\ UNCHANGED <<program, vm, debuggerExec, lastLines, breakpoints, breakpointsNil,
                 ch, waiter, crashed, calls>>

NextStep ==
  /\ cmd.name = "Next"
  /\ NextRuns
  /\ ~isDebuggerStatement(vm)
  /\ currentLine' = Line(vm)
  /\ IF Throws(vm)
     THEN /\ crashed' = "exception"
          /\ cmd' = NoCmd
          /\ UNCHANGED vm
     ELSE /\ \E taken \in Branches(vm) : vm' = exec(vm, taken)
          /\ cmd' = [cmd EXCEPT !.ran = 1]
          /\ UNCHANGED crashed
  /\ UNCHANGED <<program, debuggerExec, lastLines, breakpoints, breakpointsNil, ch,
                 waiter, ret, pre, calls>>

NextReturn_closes ==
  /\ cmd.name = "Next"
  /\ NextRuns => isDebuggerStatement(vm)
  /\ currentLine' = IF NextRuns THEN Line(vm) ELSE currentLine
  /\ lastLines' = updateLastLine(lastLines, cmd.lastLine)
  /\ ret' = [Result("Next", Nil, Nil) EXCEPT !.ran = cmd.ran]
  /\ cmd' = NoCmd
  /\ ch' = "closed"
  /\ UNCHANGED <<program, vm, debuggerExec, breakpoints, breakpointsNil, waiter,
                 pre, crashed, calls>>

NextReturn ==
  /\ cmd.name = "Next"
  /\ NextRuns => isDebuggerStatement(vm)
  /\ currentLine' = IF NextRuns THEN Line(vm) ELSE currentLine
  /\ lastLines' = updateLastLine(lastLines, cmd.lastLine)
  /\ ret' = [Result("Next", Nil, Nil) EXCEPT !.ran = cmd.ran]
  /\ cmd' = NoCmd
  /\ UNCHANGED <<program, vm, debuggerExec, breakpoints, breakpointsNil, ch, waiter,
                 pre, crashed, calls>>

(***************************************************************************)
(* Continue: the call, one iteration of the loop, the return.  The         *)
(* deferred close(dbg.ch) runs on every way out of Continue.               *)
(***************************************************************************)
ContinueRuns == isSafeToRun(vm) /\ ~isDebuggerStatement(vm)

DeferredClose_dropped(panic) ==
  /\ ch' = ch
  /\ crashed' = panic

DeferredClose(panic) ==
  /\ ch' = "closed"
  /\ crashed' = IF ch = "closed" THEN "close of closed channel" ELSE panic

ContinueCall ==
  /\ Idle
  /\ Len(updateLastLine(lastLines, Line(vm))) <= MaxHist
  /\ currentLine' = Line(vm)
  /\ cmd' = [name |-> "Continue", lastLine |-> Line(vm), nextLine |-> 0, ran |-> 0,
             resumes |-> ret.cmd \in {"Next", "Continue"}]
  /\ pre' = Snapshot
  /\ ret' = Result("none", Nil, Nil)
  /\ calls' = [calls EXCEPT !.started = @ + 1]
  /\ UNCHANGED <<program, vm, debuggerExec, lastLines, breakpoints, breakpointsNil,
                 ch, waiter, crashed>>

ContinueStep ==
  /\ cmd.name = "Continue"
  /\ ContinueRuns
  /\ ~isBreakpoint(vm, breakpoints)
  /\ IF Throws(vm)
     THEN /\ DeferredClose("exception")
          /\ cmd' = NoCmd
          /\ UNCHANGED <<vm, currentLine>>
     ELSE /\ \E taken \in Branches(vm) : vm' = exec(vm, taken)
          /\ currentLine' = Line(vm')
          /\ cmd' = [cmd EXCEPT !.ran = 1]
          /\ UNCHANGED <<ch, crashed>>
  /\ UNCHANGED <<program, debuggerExec, lastLines, breakpoints, breakpointsNil,
                 waiter, ret, pre, calls>>

ContinueReturn ==
  /\ cmd.name = "Continue"
  /\ ContinueRuns => isBreakpoint(vm, breakpoints)
  /\ currentLine' = IF ContinueRuns THEN Line(vm) ELSE currentLine
  /\ lastLines' = updateLastLine(lastLines, cmd.lastLine)
  /\ DeferredClose(Nil)
  /\ ret' = IF ch = "closed" THEN ret
            ELSE [Result("Continue", Nil, Nil) EXCEPT !.ran = cmd.ran]
  /\ calls' = IF ch = "closed" THEN calls ELSE [calls EXCEPT !.returned = @ + 1]
  /\ cmd' = NoCmd
  /\ UNCHANGED <<program, vm, debuggerExec, breakpoints, breakpointsNil, waiter, pre>>

(***************************************************************************)
(* The thread that calls dbg.wait(): it blocks on the channel until the    *)
(* channel is closed.                                                      *)
(***************************************************************************)
WaitReturn ==
  /\ waiter = "blocked"
  /\ ch = "closed"
  /\ waiter' = "done"
  /\ UNCHANGED <<program, vm, debuggerExec, currentLine, lastLines, breakpoints,
                 breakpointsNil, ch, cmd, ret, pre, crashed, calls>>

Next ==
  \/ \E b \in BreakpointInputs : SetBreakpoint(b.Filename, b.Line)
  \/ \E b \in BreakpointInputs : ClearBreakpoint(b.Filename, b.Line)
  \/ Breakpoints
  \/ \E expr \in Exprs : Exec(expr)
  \/ \E varName \in VarNames : PrintVar(varName)
  \/ List
  \/ Help
  \/ StepIn
  \/ StepOut
  \/ NextCall
  \/ NextStep
  \/ NextReturn
  \/ ContinueCall
  \/ ContinueStep
  \/ ContinueReturn
  \/ WaitReturn

Spec == Init /\ [][Next]_vars

(***************************************************************************)
(* Properties of Exec.                                                     *)
(***************************************************************************)
Receiver(v) == IF v.sb >= 0 THEN v.stack[v.sb + 1] ELSE globalObject

ExecReturned(stage) == ret.cmd = "Exec" /\ ret.stage = stage

\* C1: an Exec of a non-empty expression whose parse, compilation and run all
\* succeed returns the value of the evaluation with a nil error, and the paused
\* frame's active program, program counter, stack pointer, stack base and
\* receiver are what they were before the Exec.
ExecSuccessKeepsFrame ==
  ExecReturned("ok") =>
    /\ ret.Err = Nil
    /\ ret.expr = "1+1" => ret.Value = "2"
    /\ vm.prg = pre.vm.prg
    /\ vm.pc = pre.vm.pc
    /\ vm.sp = pre.vm.sp
    /\ vm.sb = pre.vm.sb
    /\ Receiver(vm) = Receiver(pre.vm)

ExecSuccessInFrame ==
  /\ ExecReturned("ok")
  /\ ret.Value = "2"
  /\ vm.pc > 0
  /\ vm.sb >= 0
  /\ Receiver(vm) = "objA"

\* C2: when the run of the fragment fails after the VM was switched to it, then
\* once Exec has returned the active program, program counter, argument count,
\* result, stack base, stack pointer and context-stack depth are what they were
\* before the Exec, and the halt flag is cleared.
ExecFailureRestoresFrame ==
  ExecReturned("run") =>
    /\ vm.prg = pre.vm.prg
    /\ vm.pc = pre.vm.pc
    /\ vm.args = pre.vm.args
    /\ vm.result = pre.vm.result
    /\ vm.sb = pre.vm.sb
    /\ vm.sp = pre.vm.sp
    /\ Len(vm.callStack) = Len(pre.vm.callStack)
    /\ vm.halt = FALSE

\* C3: every failure of an Exec is reported as a returned error: a parse
\* failure yields a syntax error, and a failure caught during the compilation
\* or the run of the fragment yields a non-nil Err.
ExecFailureReturnsError ==
  /\ ExecReturned("parse") => ret.Err = "CompilerSyntaxError"
  /\ ExecReturned("compile") => ret.Err # Nil
  /\ ExecReturned("run") => ret.Err # Nil

(***************************************************************************)
(* Properties of Continue and of the channel.                              *)
(***************************************************************************)
HasMarker(v) == \E i \in 1..Len(Code(v)) : Code(v)[i].op = "debugger"

Registered(bps) == {bps[i] : i \in 1..Len(bps)}

Position(v) == [Filename |-> Filename(v), Line |-> Line(v)]

\* C4: with no breakpoint registered and no pause marker in the program, the
\* first Continue returns with a nil error once the program counter is at the
\* end of the code, and the channel goes from open to closed once in that call:
\* it is open while the call runs and closed when the call has returned.
FirstContinueRunsToEnd ==
  /\ (cmd.name = "Continue" /\ calls.started = 1) => ch = "open"
  /\ (ret.cmd = "Continue" /\ calls.started = 1 /\ pre.breakpoints = <<>>
        /\ ~HasMarker(pre.vm)) =>
       /\ vm.pc = Len(Code(vm))
       /\ ret.Err = Nil
       /\ pre.ch = "open"
       /\ ch = "closed"
       /\ calls.returned = 1

FirstContinueRanToEnd ==
  /\ ret.cmd = "Continue"
  /\ calls.started = 1
  /\ pre.breakpoints = <<>>
  /\ ~HasMarker(pre.vm)
  /\ pre.vm.pc = 0
  /\ ret.ran = 1
  /\ vm.pc = Len(Code(vm))

\* C5: over any sequence of commands the channel is closed at most once: no
\* Continue closes a channel that is already closed.
GateReleasedAtMostOnce == crashed # "close of closed channel"

\* C6: only Continue closes the channel: the channel goes from open to closed
\* only in the step that ends a Continue call, never in a step of another
\* command nor while Continue still executes instructions; the waiter leaves
\* wait() only when the channel is closed, and the channel is closed once a
\* Continue call has returned.
OnlyContinueReleases ==
  /\ [][ch' # ch => (cmd.name = "Continue" /\ cmd'.name = "none" /\ ch' = "closed")]_vars
  /\ [][waiter' # waiter => ch = "closed"]_vars
  /\ [](waiter = "done" => calls.started >= 1)
  /\ [](calls.returned >= 1 => ch = "closed")

WaiterUnblockedAfterContinue ==
  /\ waiter = "done"
  /\ calls.returned = 1
  /\ ret.cmd = "Next"

\* C7: Continue executes no instruction while the position of the instruction
\* at the program counter is a registered breakpoint, and a Continue called at
\* a registered breakpoint returns with the program counter unchanged, having
\* executed no instruction.
ContinueHaltsAtBreakpoint ==
  /\ [][(cmd.name = "Continue" /\ vm' # vm) =>
          Position(vm) \notin Registered(breakpoints)]_vars
  /\ []((ret.cmd = "Continue" /\ Position(pre.vm) \in Registered(pre.breakpoints)) =>
          (vm = pre.vm /\ ret.ran = 0))
  /\ []((ret.cmd = "Continue" /\ isSafeToRun(vm) /\ ~isDebuggerStatement(vm)) =>
          Position(vm) \in Registered(breakpoints))

ContinueHaltedAtBreakpoint ==
  /\ ret.cmd = "Continue"
  /\ ret.ran = 1
  /\ isSafeToRun(vm)
  /\ ~isDebuggerStatement(vm)
  /\ Len(breakpoints) = 2
  /\ Position(vm) = breakpoints[2]

(***************************************************************************)
(* Properties of Next.                                                     *)
(***************************************************************************)
LaterLines(v) == {p \in (v.pc + 1)..Len(Code(v)) : LineAt(v, p) > Line(v)}

Boundary(v) ==
  IF LaterLines(v) = {} THEN 0
  ELSE LineAt(v, CHOOSE p \in LaterLines(v) : \A q \in LaterLines(v) : p <= q)

NextStops(v, B) == ~isSafeToRun(v) \/ Line(v) = B \/ isDebuggerStatement(v)

\* C8: Next, called at a line whose next-line boundary is B, executes an
\* instruction only in a state where the current line is not B, no marker is
\* at the program counter and instructions are left, and it returns in the
\* first state where one of the three holds.
NextStopsAtBoundary ==
  /\ [][(cmd.name = "Next" /\ vm' # vm) => ~NextStops(vm, Boundary(pre.vm))]_vars
  /\ [](ret.cmd = "Next" => NextStops(vm, Boundary(pre.vm)))

NextStoppedAtBoundary ==
  /\ ret.cmd = "Next"
  /\ ret.ran = 1
  /\ isSafeToRun(vm)
  /\ ~isDebuggerStatement(vm)
  /\ Line(vm) = Boundary(pre.vm)
  /\ Line(vm) = Line(pre.vm) + 2

(***************************************************************************)
(* Properties of the breakpoint registry.                                  *)
(***************************************************************************)
Without(bps, b) == SelectSeq(bps, LAMBDA x : x # b)

\* C9: the registry never holds the same (filename, line) pair twice; a
\* SetBreakpoint of a registered pair returns an error and leaves the registry
\* as it was, and a SetBreakpoint of an unregistered pair succeeds and appends
\* that one entry.
NoDuplicateBreakpoints ==
  /\ \A i, j \in 1..Len(breakpoints) : breakpoints[i] = breakpoints[j] => i = j
  /\ ret.cmd = "SetBreakpoint" =>
       IF ret.bp \in Registered(pre.breakpoints)
       THEN ret.Err # Nil /\ breakpoints = pre.breakpoints
       ELSE ret.Err = Nil /\ breakpoints = Append(pre.breakpoints, ret.bp)

DuplicateSetRejected ==
  /\ ret.cmd = "SetBreakpoint"
  /\ ret.Err # Nil
  /\ Len(breakpoints) = 2
  /\ breakpoints[1] = ret.bp

ClearOfUnregisteredFails ==
  (ret.cmd = "ClearBreakpoint" /\ ret.bp \notin Registered(pre.breakpoints)) =>
    /\ ret.Err # Nil
    /\ breakpoints = pre.breakpoints

ClearOfUnregisteredFailed ==
  /\ ret.cmd = "ClearBreakpoint"
  /\ ret.Err # Nil
  /\ Len(breakpoints) = 2
  /\ ret.bp \notin Registered(breakpoints)

\* C12: whenever no breakpoint is registered, the listing of the breakpoints
\* returns an error; whenever one is registered, it returns the registered
\* breakpoints and no error.
EmptyListingFails ==
  ret.cmd = "Breakpoints" =>
    IF Len(breakpoints) = 0 THEN ret.Err # Nil
    ELSE ret.Err = Nil /\ ret.list = breakpoints

(***************************************************************************)
(* Properties of Print.                                                    *)
(***************************************************************************)
ScopesBinding(name) == {i \in 1..Len(vm.stash) : name \in DOMAIN vm.stash[i]}

InnermostBinding(name) ==
  vm.stash[CHOOSE i \in ScopesBinding(name) : \A j \in ScopesBinding(name) : i <= j][name]

PrintReturned == ret.cmd = "Print" /\ ret.expr # ""

\* C13: a Print of a name bound in the scope chain returns, with no error, the
\* value of the binding of the innermost scope that declares the name, whatever
\* the receiver of the frame and the global object hold.
PrintReturnsInnermostBinding ==
  (PrintReturned /\ ScopesBinding(ret.expr) # {}) =>
    /\ ret.Err = Nil
    /\ ret.Value = Sprint(InnermostBinding(ret.expr))

\* C13, amended: a Print of a name bound in the scope chain returns, with no
\* error, the rendering of the value of the binding of the innermost scope that
\* declares the name, or the rendering of the constant pool of the active
\* program when that value is undefined.
PrintReturnsInnermostBindingOrPool ==
  (PrintReturned /\ ScopesBinding(ret.expr) # {}) =>
    /\ ret.Err = Nil
    /\ ret.Value = IF InnermostBinding(ret.expr) = undefined THEN SprintValues(vm)
                   ELSE Sprint(InnermostBinding(ret.expr))

PrintedShadowingBinding ==
  /\ PrintReturned
  /\ ret.expr = "x"
  /\ Cardinality(ScopesBinding("x")) = 2
  /\ "x" \in DOMAIN GlobalProperties
  /\ vm.sb >= 0
  /\ ret.Value = "1"
  /\ ret.Err = Nil

Unbound(name) == ScopesBinding(name) = {} /\ name \notin DOMAIN GlobalProperties

\* C14: a Print of a name bound in no scope of the chain and not an own
\* property of the global object returns the unresolved reference for that
\* name with a non-nil error, never another value.
PrintOfUnboundIsUnresolved ==
  (PrintReturned /\ Unbound(ret.expr)) =>
    /\ ret.Err # Nil
    /\ ret.Value = Sprint(Unresolved(ret.expr))

\* C14, amended: a Print of a name bound in no scope of the chain and not an
\* own property of the global object returns a non-nil error; its value is the
\* unresolved reference for that name when the frame has no receiver at the
\* stack base (sb < 0), and otherwise the rendering of the receiver (of the
\* constant pool when the receiver is undefined).
PrintOfUnboundIsReceiverOrUnresolved ==
  (PrintReturned /\ Unbound(ret.expr)) =>
    /\ ret.Err # Nil
    /\ ret.Value = IF vm.sb < 0 THEN Sprint(Unresolved(ret.expr))
                   ELSE IF vm.stack[vm.sb + 1] = undefined THEN SprintValues(vm)
                   ELSE Sprint(vm.stack[vm.sb + 1])

PrintedUnresolved ==
  /\ PrintReturned
  /\ Unbound(ret.expr)
  /\ vm.sb < 0
  /\ vm.pc > 0
  /\ ret.Value = Sprint(Unresolved("nope"))
  /\ ret.Err = "cannot resolve variable"

(***************************************************************************)
(* Properties of the commands that are to change nothing, and of the       *)
(* cursor.                                                                 *)
(***************************************************************************)
SessionUnchanged ==
  /\ vm = pre.vm
  /\ debuggerExec = pre.debuggerExec
  /\ currentLine = pre.currentLine
  /\ lastLines = pre.lastLines
  /\ breakpoints = pre.breakpoints
  /\ ch = pre.ch

\* C15: an Exec of the empty expression and a Print of the empty name return a
\* non-nil error and change nothing: the VM, the evaluation flag, the cursor,
\* the registry and the channel are what they were.
EmptyArgumentChangesNothing ==
  /\ (ret.cmd = "Exec" /\ ret.expr = "") =>
       (ret.Err # Nil /\ ret.Value = Nil /\ SessionUnchanged)
  /\ (ret.cmd = "Print" /\ ret.expr = "") =>
       (ret.Err # Nil /\ ret.Value = "" /\ SessionUnchanged)

EmptyExecRejected ==
  /\ ret.cmd = "Exec"
  /\ ret.expr = ""
  /\ ret.Err = "nothing to execute"
  /\ vm.pc > 0
  /\ Len(breakpoints) > 0

\* C16: StepIn and StepOut return a nil value with the "not implemented" error
\* and change nothing of the session and the VM.
StepInOutChangeNothing ==
  ret.cmd \in {"StepIn", "StepOut"} =>
    /\ ret.Value = Nil
    /\ ret.Err = "not implemented yet"
    /\ SessionUnchanged

StepInRejected ==
  /\ ret.cmd = "StepIn"
  /\ ret.Err # Nil
  /\ vm.pc > 0
  /\ currentLine > 0

\* C17: a pause marker does not block: a Continue or a Next called where a
\* Continue or a Next has stopped with a marker at the program counter
\* executes the marker and returns with the program counter past it.
MarkerDoesNotBlock ==
  [][(/\ cmd.name \in {"Continue", "Next"}
      /\ cmd.resumes
      /\ isSafeToRun(pre.vm)
      /\ isDebuggerStatement(pre.vm)
      /\ cmd'.name = "none") => vm'.pc > pre.vm.pc]_vars

\* C18: Next, called at line L, executes only instructions located at line L
\* and returns in the first state whose line is not L, unless a marker or the
\* end of the program comes first, whatever the jumps and the line table of
\* the program.
NextStaysOnLine ==
  /\ [][(cmd.name = "Next" /\ vm' # vm) => Line(vm) = Line(pre.vm)]_vars
  /\ [](ret.cmd = "Next" =>
          (Line(vm) # Line(pre.vm) \/ ~isSafeToRun(vm) \/ isDebuggerStatement(vm)))

\* C19: lastLines is never empty, starts with 0 and holds no two equal
\* adjacent elements, and a step leaves it as it is or appends one element.
LastLinesIsDeduplicatedHistory ==
  /\ [](/\ Len(lastLines) > 0
        /\ lastLines[1] = 0
        /\ \A i \in 1..(Len(lastLines) - 1) : lastLines[i] # lastLines[i + 1])
  /\ [][\/ lastLines' = lastLines
        \/ /\ Len(lastLines') = Len(lastLines) + 1
           /\ SubSeq(lastLines', 1, Len(lastLines)) = lastLines]_vars

LastLinesGrewTwice ==
  /\ Len(lastLines) = 3
  /\ ret.cmd = "Next"
  /\ lastLines[2] # lastLines[3]

\* C20: SetBreakpoint, ClearBreakpoint, Breakpoints, Exec, Print, List and
\* Help leave currentLine and lastLines as they were.
OnlySteppingMovesCursor ==
  ret.cmd \in {"SetBreakpoint", "ClearBreakpoint", "Breakpoints", "Exec", "Print",
               "List", "Help"} =>
    (currentLine = pre.currentLine /\ lastLines = pre.lastLines)

====
